---- MODULE Spec2Model ----
(***************************************************************************)
(* The nl80211 attribute codec of wl-nl80211 (src/src/attr.rs).            *)
(*                                                                         *)
(* The codec is a set of pure functions over byte buffers and typed        *)
(* values.  The state machine below is a codec session: a typed value or   *)
(* a raw record is supplied, and the codec's emit / parse entry points     *)
(* are applied to what the session currently holds.                        *)
(*                                                                         *)
(* Bytes are naturals 0..255, buffers are sequences of bytes.              *)
(* A u32 / u64 is held as its 4 / 8 base-256 digits, most significant      *)
(* first, so that the full 32 / 64 bit range is representable; the wire    *)
(* form is produced by NativeBytes according to the host byte order.       *)
(*                                                                         *)
(* The helpers named after netlink_packet_utils / byteorder items follow   *)
(* the behaviour of those crates (imported at attr.rs:3-9).                *)
(***************************************************************************)
EXTENDS Naturals, Sequences, FiniteSets

VARIABLES
    endian,   \* host byte order of the build: "le" or "be"
    ty,       \* the Rust type the session drives: "Nl80211Attr" or "Nl80211MloLink"
    phase,    \* position of the session
    attr0,    \* the typed value the session started from (or Blank)
    rec0,     \* the record the session started from: kind, value, sub-records
    buf0,     \* the bytes of that record (or << >>)
    attr,     \* current parse result  [ok, val]
    buf       \* current emit result   [panic, buf]

vars == <<endian, ty, phase, attr0, rec0, buf0, attr, buf>>

----------------------------------------------------------------------------
(* Bounds of the explored inputs *)

MaxPayload == 9    \* longest value payload of a supplied record
MaxLinks == 2      \* longest per-link list of a supplied MloLinks value
MaxStats == 1      \* longest statistics list of a supplied value
MaxSubs == 3       \* most sub-records inside a supplied per-link record
MaxElems == 3      \* most elements inside a supplied list record
MaxSiblings == 3   \* most sibling records inside a supplied message payload

----------------------------------------------------------------------------
(* Program constants *)

NL80211_ATTR_WIPHY == 1
NL80211_ATTR_WIPHY_NAME == 2
NL80211_ATTR_IFINDEX == 3
NL80211_ATTR_IFNAME == 4
NL80211_ATTR_IFTYPE == 5
NL80211_ATTR_MAC == 6
NL80211_ATTR_WIPHY_FREQ == 38
NL80211_ATTR_WIPHY_CHANNEL_TYPE == 39
NL80211_ATTR_GENERATION == 46
NL80211_ATTR_SSID == 52
NL80211_ATTR_CIPHER_SUITES == 57
NL80211_ATTR_4ADDR == 83
NL80211_ATTR_WIPHY_TX_POWER_LEVEL == 98
NL80211_ATTR_WDEV == 153
NL80211_ATTR_CHANNEL_WIDTH == 159
NL80211_ATTR_CENTER_FREQ1 == 160
NL80211_ATTR_CENTER_FREQ2 == 161
NL80211_ATTR_TXQ_STATS == 265
NL80211_ATTR_WIPHY_FREQ_OFFSET == 290
NL80211_ATTR_MLO_LINKS == 312
NL80211_ATTR_MLO_LINK_ID == 313
ETH_ALEN == 6

NLA_HEADER_SIZE == 4
NLA_ALIGNTO == 4
NLA_TYPE_MASK == 16383

----------------------------------------------------------------------------
(* Byte-level helpers *)

Byte == 0..255

Reverse(s) == [i \in 1..Len(s) |-> s[Len(s) + 1 - i]]

Fill(n, b) == [i \in 1..n |-> b]

Zeros(n) == Fill(n, 0)

\* buffer[off .. off+Len(bytes)) := bytes   (caller checks the range)
Overwrite(buffer, off, bytes) ==
    [i \in 1..Len(buffer) |->
        IF i > off /\ i <= off + Len(bytes) THEN bytes[i - off] ELSE buffer[i]]

\* &buffer[from..to] of Rust (0-based, half-open)
Slice(buffer, from, to) == SubSeq(buffer, from + 1, to)

\* NativeEndian: the digits of an integer, most significant first, as the
\* host lays them out in memory.
NativeBytes(digits) == IF endian = "le" THEN Reverse(digits) ELSE digits

\* NativeEndian::read_*: memory bytes back to digits.
NativeDigits(bytes) == IF endian = "le" THEN Reverse(bytes) ELSE bytes

U16Digits(n) == <<n \div 256, n % 256>>

U16Value(d) == d[1] * 256 + d[2]

nla_align(n) == ((n + NLA_ALIGNTO - 1) \div NLA_ALIGNTO) * NLA_ALIGNTO

----------------------------------------------------------------------------
(* Results of the fallible / panicking operations *)

\* A &mut [u8] operation either completes, leaving `b`, or panics (index out
\* of range, copy_from_slice length mismatch), leaving `b` as written so far.
Done(b) == [panic |-> FALSE, buf |-> b]

Panic(b) == [panic |-> TRUE, buf |-> b]

\* NativeEndian::write_u16(&mut buffer[0..2], n) / write_u32 / write_u64
write_native(buffer, digits) ==
    IF Len(buffer) < Len(digits)
    THEN Panic(buffer)
    ELSE Done(Overwrite(buffer, 0, NativeBytes(digits)))

\* <[u8]>::copy_from_slice
copy_from_slice(buffer, src) ==
    IF Len(buffer) # Len(src) THEN Panic(buffer) ELSE Done(src)

----------------------------------------------------------------------------
(* netlink_packet_utils::parsers *)

Err == [ok |-> FALSE, val |-> << >>]

Ok(v) == [ok |-> TRUE, val |-> v]

parse_u8(payload) ==
    IF Len(payload) # 1 THEN Err ELSE Ok(payload[1])

parse_u32(payload) ==
    IF Len(payload) # 4 THEN Err ELSE Ok(NativeDigits(payload))

parse_u64(payload) ==
    IF Len(payload) # 8 THEN Err ELSE Ok(NativeDigits(payload))

\* core::str::from_utf8 validity of a byte string
Cont(b) == b >= 128 /\ b <= 191

RECURSIVE IsUtf8(_)
IsUtf8(s) ==
    IF Len(s) = 0 THEN TRUE
    ELSE LET b == s[1]
             n == Len(s)
         IN  IF b < 128 THEN IsUtf8(Tail(s))
             ELSE IF b >= 194 /\ b <= 223
             THEN n >= 2 /\ Cont(s[2]) /\ IsUtf8(SubSeq(s, 3, n))
             ELSE IF b >= 224 /\ b <= 239
             THEN /\ n >= 3
                  /\ Cont(s[2]) /\ Cont(s[3])
                  /\ (b = 224 => s[2] >= 160)
                  /\ (b = 237 => s[2] <= 159)
                  /\ IsUtf8(SubSeq(s, 4, n))
             ELSE IF b >= 240 /\ b <= 244
             THEN /\ n >= 4
                  /\ Cont(s[2]) /\ Cont(s[3]) /\ Cont(s[4])
                  /\ (b = 240 => s[2] >= 144)
                  /\ (b = 244 => s[2] <= 143)
                  /\ IsUtf8(SubSeq(s, 5, n))
             ELSE FALSE

\* parse_string: an empty payload is the empty string; one trailing NUL, if
\* present, is dropped; the rest must be valid UTF-8.
parse_string(payload) ==
    IF Len(payload) = 0 THEN Ok(<< >>)
    ELSE LET slice == IF payload[Len(payload)] = 0
                      THEN SubSeq(payload, 1, Len(payload) - 1)
                      ELSE payload
         IN  IF IsUtf8(slice) THEN Ok(slice) ELSE Err

----------------------------------------------------------------------------
(* netlink_packet_utils::nla::NlaBuffer *)

\* NlaBuffer::kind
NlaBuffer_kind(data) ==
    U16Value(NativeDigits(SubSeq(data, 1, 2))) % (NLA_TYPE_MASK + 1)

\* NlaBuffer::length
NlaBuffer_length(data) == U16Value(NativeDigits(SubSeq(data, 3, 4)))

\* NlaBuffer::value  (on a buffer accepted by new_checked)
NlaBuffer_value(data) == Slice(data, NLA_HEADER_SIZE, NlaBuffer_length(data))

\* NlaBuffer::new_checked / check_buffer_length
NlaBuffer_new_checked(data) ==
    /\ Len(data) >= NLA_HEADER_SIZE
    /\ NlaBuffer_length(data) <= Len(data)
    /\ NlaBuffer_length(data) >= NLA_HEADER_SIZE

----------------------------------------------------------------------------
(* netlink_packet_utils::nla::Nla / Emitable *)

\* Emitable::buffer_len of an Nla with the given value_len
nla_padding(vl) == (4 - (vl % 4)) % 4

buffer_len(vl) == vl + nla_padding(vl) + NLA_HEADER_SIZE

\* The padding loop of Nla::emit: buffer[4 + vl + i] = 0 for i in 0..padding
RECURSIVE emit_padding(_, _, _)
emit_padding(buffer, at, n) ==
    IF n = 0 THEN Done(buffer)
    ELSE IF at >= Len(buffer) THEN Panic(buffer)
    ELSE emit_padding(Overwrite(buffer, at, <<0>>), at + 1, n - 1)

\* <T: Nla as Emitable>::emit, up to the call of emit_value:
\*   buffer.set_kind(kind); buffer.set_length(value_len + 4); value_mut()
Nla_emit_header(k, vl, buffer) ==
    IF Len(buffer) < 2 THEN Panic(buffer)
    ELSE LET b1 == Overwrite(buffer, 0,
                             NativeBytes(U16Digits(k % (NLA_TYPE_MASK + 1))))
         IN  IF Len(buffer) < 4 THEN Panic(b1)
             ELSE LET b2 == Overwrite(b1, 2,
                                NativeBytes(U16Digits(vl + NLA_HEADER_SIZE)))
                  IN  IF vl + NLA_HEADER_SIZE > Len(buffer) THEN Panic(b2)
                      ELSE Done(b2)

\* NlaBuffer::value_mut of a buffer whose header is set
Nla_value_mut(buffer, vl) == Slice(buffer, NLA_HEADER_SIZE, vl + NLA_HEADER_SIZE)

\* <T: Nla as Emitable>::emit, from the return of emit_value (result r on
\* the value slice of buffer b): the padding bytes are zeroed.
Nla_emit_finish(vl, b, r) ==
    LET b3 == Overwrite(b, NLA_HEADER_SIZE, r.buf)
    IN  IF r.panic THEN Panic(b3)
        ELSE emit_padding(b3, NLA_HEADER_SIZE + vl, nla_padding(vl))

\* DefaultNla { kind, value }
DefaultNla(k, v) == [kind |-> k, value |-> v]

DefaultNla_value_len(d) == Len(d.value)

DefaultNla_emit_value(d, buffer) == copy_from_slice(buffer, d.value)

DefaultNla_emit(d, buffer) ==
    LET vl == DefaultNla_value_len(d)
        h == Nla_emit_header(d.kind, vl, buffer)
    IN  IF h.panic THEN h
        ELSE Nla_emit_finish(vl, h.buf,
                 DefaultNla_emit_value(d, Nla_value_mut(h.buf, vl)))

\* DefaultNla::parse never fails: it copies kind and value.
DefaultNla_parse(data) ==
    DefaultNla(NlaBuffer_kind(data), NlaBuffer_value(data))

----------------------------------------------------------------------------
(* Nl80211MloLinkNla and Nl80211MloLink *)

NoMac == Zeros(ETH_ALEN)

MloLinkNla_Id(d) == [tag |-> "Id", id |-> d, mac |-> NoMac, other |-> DefaultNla(0, << >>)]

MloLinkNla_Mac(s) == [tag |-> "Mac", id |-> 0, mac |-> s, other |-> DefaultNla(0, << >>)]

MloLinkNla_Other(d) == [tag |-> "Other", id |-> 0, mac |-> NoMac, other |-> d]

Nl80211MloLinkNla_value_len(n) ==
    CASE n.tag = "Id" -> 1
      [] n.tag = "Mac" -> ETH_ALEN
      [] n.tag = "Other" -> DefaultNla_value_len(n.other)

Nl80211MloLinkNla_kind(n) ==
    CASE n.tag = "Id" -> NL80211_ATTR_MLO_LINK_ID
      [] n.tag = "Mac" -> NL80211_ATTR_MAC
      [] n.tag = "Other" -> n.other.kind

Nl80211MloLinkNla_emit_value(n, buffer) ==
    CASE n.tag = "Id" ->
            IF Len(buffer) = 0 THEN Panic(buffer)
            ELSE Done(Overwrite(buffer, 0, <<n.id>>))
      [] n.tag = "Mac" -> copy_from_slice(buffer, n.mac)
      [] n.tag = "Other" -> DefaultNla_emit(n.other, buffer)

Nl80211MloLinkNla_emit(n, buffer) ==
    LET vl == Nl80211MloLinkNla_value_len(n)
        h == Nla_emit_header(Nl80211MloLinkNla_kind(n), vl, buffer)
    IN  IF h.panic THEN h
        ELSE Nla_emit_finish(vl, h.buf,
                 Nl80211MloLinkNla_emit_value(n, Nla_value_mut(h.buf, vl)))

ParsedNla(n) == [ok |-> TRUE, val |-> n]

NlaErr == [ok |-> FALSE, val |-> MloLinkNla_Id(0)]

\* variant: an unknown sub-kind is a decode error
Nl80211MloLinkNla_parse_strict(data) ==
    LET payload == NlaBuffer_value(data)
        k == NlaBuffer_kind(data)
    IN  IF k = NL80211_ATTR_MLO_LINK_ID
        THEN LET r == parse_u8(payload)
             IN  IF r.ok THEN ParsedNla(MloLinkNla_Id(r.val)) ELSE NlaErr
        ELSE IF k = NL80211_ATTR_MAC /\ Len(payload) = ETH_ALEN
        THEN ParsedNla(MloLinkNla_Mac(payload))
        ELSE NlaErr

Nl80211MloLinkNla_parse(data) ==
    LET payload == NlaBuffer_value(data)
        k == NlaBuffer_kind(data)
    IN  IF k = NL80211_ATTR_MLO_LINK_ID
        THEN LET r == parse_u8(payload)
             IN  IF r.ok THEN ParsedNla(MloLinkNla_Id(r.val)) ELSE NlaErr
        ELSE IF k = NL80211_ATTR_MAC
        THEN IF Len(payload) = ETH_ALEN
             THEN ParsedNla(MloLinkNla_Mac(payload))
             ELSE NlaErr
        ELSE ParsedNla(MloLinkNla_Other(DefaultNla_parse(data)))

\* struct Nl80211MloLink { id, mac }, and its derived Default
MloLink(i, m) == [id |-> i, mac |-> m]

MloLink_default == MloLink(0, NoMac)

\* From<&Nl80211MloLink> for Vec<Nl80211MloLinkNla>
MloLink_to_nlas(link) == <<MloLinkNla_Id(link.id), MloLinkNla_Mac(link.mac)>>

\* <&[Nl80211MloLinkNla] as Emitable>::buffer_len
RECURSIVE MloLinkNlas_buffer_len(_)
MloLinkNlas_buffer_len(nlas) ==
    IF nlas = << >> THEN 0
    ELSE buffer_len(Nl80211MloLinkNla_value_len(Head(nlas)))
         + MloLinkNlas_buffer_len(Tail(nlas))

\* <&[Nl80211MloLinkNla] as Emitable>::emit
RECURSIVE MloLinkNlas_emit(_, _, _)
MloLinkNlas_emit(nlas, start, buffer) ==
    IF nlas = << >> THEN Done(buffer)
    ELSE LET n == Head(nlas)
             end == start + buffer_len(Nl80211MloLinkNla_value_len(n))
         IN  IF end > Len(buffer) THEN Panic(buffer)
             ELSE LET r == Nl80211MloLinkNla_emit(n, Slice(buffer, start, end))
                      b == Overwrite(buffer, start, r.buf)
                  IN  IF r.panic THEN Panic(b)
                      ELSE MloLinkNlas_emit(Tail(nlas), end, b)

Nl80211MloLink_value_len(link) ==
    MloLinkNlas_buffer_len(MloLink_to_nlas(link))

\* variant: the link id itself as outer wire-type
Nl80211MloLink_kind_raw(link) == link.id

\* variant: the addition is done in 8 bits, before the widening
Nl80211MloLink_kind_u8(link) == (link.id + 1) % 256

\* self.id as u16 + 1, in 16 bits
Nl80211MloLink_kind(link) == ((link.id % 65536) + 1) % 65536

Nl80211MloLink_emit_value(link, buffer) ==
    MloLinkNlas_emit(MloLink_to_nlas(link), 0, buffer)

Nl80211MloLink_emit(link, buffer) ==
    LET vl == Nl80211MloLink_value_len(link)
        h == Nla_emit_header(Nl80211MloLink_kind(link), vl, buffer)
    IN  IF h.panic THEN h
        ELSE Nla_emit_finish(vl, h.buf,
                 Nl80211MloLink_emit_value(link, Nla_value_mut(h.buf, vl)))

LinkErr == [ok |-> FALSE, val |-> MloLink_default]

\* variant: a field that was already set is not overwritten
RECURSIVE MloLink_parse_loop_first(_, _, _)
MloLink_parse_loop_first(payload, position, ret) ==
    IF position >= Len(payload) THEN [ok |-> TRUE, val |-> ret]
    ELSE LET rest == Slice(payload, position, Len(payload))
         IN  IF ~NlaBuffer_new_checked(rest) THEN LinkErr
             ELSE LET p == Nl80211MloLinkNla_parse(rest)
                      next == position + nla_align(NlaBuffer_length(rest))
                  IN  IF ~p.ok THEN LinkErr
                      ELSE MloLink_parse_loop_first(payload, next,
                              CASE p.val.tag = "Id" ->
                                      IF ret.id = 0
                                      THEN [ret EXCEPT !.id = p.val.id]
                                      ELSE ret
                                [] p.val.tag = "Mac" ->
                                      IF ret.mac = NoMac
                                      THEN [ret EXCEPT !.mac = p.val.mac]
                                      ELSE ret
                                [] p.val.tag = "Other" -> ret)

\* the `for nla in NlasIterator::new(payload)` loop of Nl80211MloLink::parse
RECURSIVE MloLink_parse_loop(_, _, _)
MloLink_parse_loop(payload, position, ret) ==
    IF position >= Len(payload) THEN [ok |-> TRUE, val |-> ret]
    ELSE LET rest == Slice(payload, position, Len(payload))
         IN  IF ~NlaBuffer_new_checked(rest) THEN LinkErr
             ELSE LET p == Nl80211MloLinkNla_parse(rest)
                      next == position + nla_align(NlaBuffer_length(rest))
                  IN  IF ~p.ok THEN LinkErr
                      ELSE MloLink_parse_loop(payload, next,
                              CASE p.val.tag = "Id" -> [ret EXCEPT !.id = p.val.id]
                                [] p.val.tag = "Mac" -> [ret EXCEPT !.mac = p.val.mac]
                                [] p.val.tag = "Other" -> ret)

Nl80211MloLink_parse(data) ==
    MloLink_parse_loop(NlaBuffer_value(data), 0, MloLink_default)

----------------------------------------------------------------------------
(* Enumerated scalars: crate::iface::Nl80211InterfaceType,                 *)
(* crate::channel::{Nl80211ChannelWidth, Nl80211WiPhyChannelType}.         *)
(* A closed list of named constants, numbered from 0, plus Other(raw).     *)

IfTypeNames ==
    <<"Unspecified", "Adhoc", "Station", "Ap", "ApVlan", "Wds", "Monitor",
      "MeshPoint", "P2pClient", "P2pGo", "P2pDevice", "Ocb", "Nan">>

ChannelWidthNames ==
    <<"NoHt20", "Mhz20", "Mhz40", "Mhz80", "Mhz80Plus80", "Mhz160", "Mhz5",
      "Mhz10", "Mhz1", "Mhz2", "Mhz4", "Mhz8", "Mhz16", "Mhz320">>

ChannelTypeNames == <<"NoHT", "HT20", "HT40Minus", "HT40Plus">>

Enum(n, r) == [name |-> n, raw |-> r]

NoEnum == Enum("", Zeros(4))

\* From<u32>: a recognised integer is its named variant, any other is Other(d)
Enum_from_u32(names, d) ==
    IF d[1] = 0 /\ d[2] = 0 /\ d[3] = 0 /\ d[4] < Len(names)
    THEN Enum(names[d[4] + 1], Zeros(4))
    ELSE Enum("Other", d)

\* From<Variant> for u32
Enum_into_u32(names, e) ==
    IF e.name = "Other" THEN e.raw
    ELSE <<0, 0, 0, (CHOOSE i \in 1..Len(names) : names[i] = e.name) - 1>>

----------------------------------------------------------------------------
(* crate::stats::Nl80211TransmitQueueStat: one nested record per counter,  *)
(* a u32 under each named kind, and the opaque escape for any other kind.  *)

TxqStatKinds == 11

TxqStat(k, d) == [tag |-> "Stat", kind |-> k, num |-> d, other |-> DefaultNla(0, << >>)]

TxqStat_Other(d) == [tag |-> "Other", kind |-> 0, num |-> Zeros(4), other |-> d]

TxqStat_value_len(st) ==
    IF st.tag = "Stat" THEN 4 ELSE DefaultNla_value_len(st.other)

TxqStat_kind(st) == IF st.tag = "Stat" THEN st.kind ELSE st.other.kind

TxqStat_emit_value(st, buffer) ==
    IF st.tag = "Stat" THEN write_native(buffer, st.num)
    ELSE DefaultNla_emit_value(st.other, buffer)

TxqStat_emit(st, buffer) ==
    LET vl == TxqStat_value_len(st)
        h == Nla_emit_header(TxqStat_kind(st), vl, buffer)
    IN  IF h.panic THEN h
        ELSE Nla_emit_finish(vl, h.buf,
                 TxqStat_emit_value(st, Nla_value_mut(h.buf, vl)))

StatErr == [ok |-> FALSE, val |-> TxqStat(0, Zeros(4))]

TxqStat_parse(data) ==
    LET k == NlaBuffer_kind(data)
    IN  IF k >= 1 /\ k <= TxqStatKinds
        THEN LET r == parse_u32(NlaBuffer_value(data))
             IN  IF r.ok THEN [ok |-> TRUE, val |-> TxqStat(k, r.val)]
                 ELSE StatErr
        ELSE [ok |-> TRUE, val |-> TxqStat_Other(DefaultNla_parse(data))]

RECURSIVE TxqStats_buffer_len(_)
TxqStats_buffer_len(nlas) ==
    IF nlas = << >> THEN 0
    ELSE buffer_len(TxqStat_value_len(Head(nlas)))
         + TxqStats_buffer_len(Tail(nlas))

RECURSIVE TxqStats_emit(_, _, _)
TxqStats_emit(nlas, start, buffer) ==
    IF nlas = << >> THEN Done(buffer)
    ELSE LET n == Head(nlas)
             end == start + buffer_len(TxqStat_value_len(n))
         IN  IF end > Len(buffer) THEN Panic(buffer)
             ELSE LET r == TxqStat_emit(n, Slice(buffer, start, end))
                      b == Overwrite(buffer, start, r.buf)
                  IN  IF r.panic THEN Panic(b)
                      ELSE TxqStats_emit(Tail(nlas), end, b)

\* <&[Nl80211MloLink] as Emitable>::buffer_len and ::emit
RECURSIVE MloLinks_buffer_len(_)
MloLinks_buffer_len(links) ==
    IF links = << >> THEN 0
    ELSE buffer_len(Nl80211MloLink_value_len(Head(links)))
         + MloLinks_buffer_len(Tail(links))

RECURSIVE MloLinks_emit(_, _, _)
MloLinks_emit(links, start, buffer) ==
    IF links = << >> THEN Done(buffer)
    ELSE LET n == Head(links)
             end == start + buffer_len(Nl80211MloLink_value_len(n))
         IN  IF end > Len(buffer) THEN Panic(buffer)
             ELSE LET r == Nl80211MloLink_emit(n, Slice(buffer, start, end))
                      b == Overwrite(buffer, start, r.buf)
                  IN  IF r.panic THEN Panic(b)
                      ELSE MloLinks_emit(Tail(links), end, b)

----------------------------------------------------------------------------
(* enum Nl80211Attr *)

Blank ==
    [tag |-> "None", num |-> << >>, bytes |-> << >>, flag |-> FALSE,
     enum |-> NoEnum, links |-> << >>, stats |-> << >>,
     other |-> DefaultNla(0, << >>), seq |-> << >>]

U32Tags ==
    {"IfIndex", "WiPhy", "Generation", "WiPhyFreq", "WiPhyFreqOffset",
     "CenterFreq1", "CenterFreq2", "WiPhyTxPowerLevel"}

EnumTags == {"IfType", "WiPhyChannelType", "ChannelWidth"}

StringTags == {"IfName", "Ssid", "WiPhyName"}

NamedTags ==
    U32Tags \cup EnumTags \cup StringTags
    \cup {"Mac", "Wdev", "Use4Addr", "TransmitQueueStats", "MloLinks"}

AttrNum(t, d) == [Blank EXCEPT !.tag = t, !.num = d]

AttrEnum(t, e) == [Blank EXCEPT !.tag = t, !.enum = e]

AttrString(t, s) == [Blank EXCEPT !.tag = t, !.bytes = s]

AttrMac(m) == [Blank EXCEPT !.tag = "Mac", !.bytes = m]

AttrUse4Addr(f) == [Blank EXCEPT !.tag = "Use4Addr", !.flag = f]

AttrTransmitQueueStats(l) == [Blank EXCEPT !.tag = "TransmitQueueStats", !.stats = l]

AttrMloLinks(l) == [Blank EXCEPT !.tag = "MloLinks", !.links = l]

AttrOther(d) == [Blank EXCEPT !.tag = "Other", !.other = d]

EnumNames(t) ==
    CASE t = "IfType" -> IfTypeNames
      [] t = "WiPhyChannelType" -> ChannelTypeNames
      [] t = "ChannelWidth" -> ChannelWidthNames

\* variant: the string arms forget the terminator
Nl80211Attr_value_len_noterm(a) ==
    CASE a.tag \in U32Tags \cup EnumTags -> 4
      [] a.tag = "Wdev" -> 8
      [] a.tag \in StringTags -> Len(a.bytes)
      [] a.tag = "Mac" -> ETH_ALEN
      [] a.tag = "Use4Addr" -> 1
      [] a.tag = "TransmitQueueStats" -> TxqStats_buffer_len(a.stats)
      [] a.tag = "MloLinks" -> MloLinks_buffer_len(a.links)
      [] a.tag = "Other" -> DefaultNla_value_len(a.other)

Nl80211Attr_value_len(a) ==
    CASE a.tag \in U32Tags \cup EnumTags -> 4
      [] a.tag = "Wdev" -> 8
      [] a.tag \in StringTags -> Len(a.bytes) + 1
      [] a.tag = "Mac" -> ETH_ALEN
      [] a.tag = "Use4Addr" -> 1
      [] a.tag = "TransmitQueueStats" -> TxqStats_buffer_len(a.stats)
      [] a.tag = "MloLinks" -> MloLinks_buffer_len(a.links)
      [] a.tag = "Other" -> DefaultNla_value_len(a.other)

\* variant: CenterFreq2 reports the code of CenterFreq1
Nl80211Attr_kind_dup(a) ==
    CASE a.tag = "WiPhy" -> NL80211_ATTR_WIPHY
      [] a.tag = "WiPhyName" -> NL80211_ATTR_WIPHY_NAME
      [] a.tag = "IfIndex" -> NL80211_ATTR_IFINDEX
      [] a.tag = "IfName" -> NL80211_ATTR_IFNAME
      [] a.tag = "IfType" -> NL80211_ATTR_IFTYPE
      [] a.tag = "Mac" -> NL80211_ATTR_MAC
      [] a.tag = "Wdev" -> NL80211_ATTR_WDEV
      [] a.tag = "Generation" -> NL80211_ATTR_GENERATION
      [] a.tag = "Use4Addr" -> NL80211_ATTR_4ADDR
      [] a.tag = "WiPhyFreq" -> NL80211_ATTR_WIPHY_FREQ
      [] a.tag = "WiPhyFreqOffset" -> NL80211_ATTR_WIPHY_FREQ_OFFSET
      [] a.tag = "WiPhyChannelType" -> NL80211_ATTR_WIPHY_CHANNEL_TYPE
      [] a.tag = "ChannelWidth" -> NL80211_ATTR_CHANNEL_WIDTH
      [] a.tag = "CenterFreq1" -> NL80211_ATTR_CENTER_FREQ1
      [] a.tag = "CenterFreq2" -> NL80211_ATTR_CENTER_FREQ1
      [] a.tag = "WiPhyTxPowerLevel" -> NL80211_ATTR_WIPHY_TX_POWER_LEVEL
      [] a.tag = "Ssid" -> NL80211_ATTR_SSID
      [] a.tag = "TransmitQueueStats" -> NL80211_ATTR_TXQ_STATS
      [] a.tag = "MloLinks" -> NL80211_ATTR_MLO_LINKS
      [] a.tag = "Other" -> a.other.kind

Nl80211Attr_kind(a) ==
    CASE a.tag = "WiPhy" -> NL80211_ATTR_WIPHY
      [] a.tag = "WiPhyName" -> NL80211_ATTR_WIPHY_NAME
      [] a.tag = "IfIndex" -> NL80211_ATTR_IFINDEX
      [] a.tag = "IfName" -> NL80211_ATTR_IFNAME
      [] a.tag = "IfType" -> NL80211_ATTR_IFTYPE
      [] a.tag = "Mac" -> NL80211_ATTR_MAC
      [] a.tag = "Wdev" -> NL80211_ATTR_WDEV
      [] a.tag = "Generation" -> NL80211_ATTR_GENERATION
      [] a.tag = "Use4Addr" -> NL80211_ATTR_4ADDR
      [] a.tag = "WiPhyFreq" -> NL80211_ATTR_WIPHY_FREQ
      [] a.tag = "WiPhyFreqOffset" -> NL80211_ATTR_WIPHY_FREQ_OFFSET
      [] a.tag = "WiPhyChannelType" -> NL80211_ATTR_WIPHY_CHANNEL_TYPE
      [] a.tag = "ChannelWidth" -> NL80211_ATTR_CHANNEL_WIDTH
      [] a.tag = "CenterFreq1" -> NL80211_ATTR_CENTER_FREQ1
      [] a.tag = "CenterFreq2" -> NL80211_ATTR_CENTER_FREQ2
      [] a.tag = "WiPhyTxPowerLevel" -> NL80211_ATTR_WIPHY_TX_POWER_LEVEL
      [] a.tag = "Ssid" -> NL80211_ATTR_SSID
      [] a.tag = "TransmitQueueStats" -> NL80211_ATTR_TXQ_STATS
      [] a.tag = "MloLinks" -> NL80211_ATTR_MLO_LINKS
      [] a.tag = "Other" -> a.other.kind

\* the string arm of emit_value:
\*   buffer[..s.len()].copy_from_slice(s.as_bytes()); buffer[s.len()] = 0;
emit_string(s, buffer) ==
    IF Len(buffer) < Len(s) THEN Panic(buffer)
    ELSE LET b == Overwrite(buffer, 0, s)
         IN  IF Len(buffer) <= Len(s) THEN Panic(b)
             ELSE Done(Overwrite(b, Len(s), <<0>>))

\* the Use4Addr arm of emit_value:  buffer[0] = *d as u8
emit_bool(f, buffer) ==
    IF Len(buffer) = 0 THEN Panic(buffer)
    ELSE Done(Overwrite(buffer, 0, <<IF f THEN 1 ELSE 0>>))

\* the Other arm of emit_value:  attr.emit(buffer)
emit_other(d, buffer) == DefaultNla_emit(d, buffer)

Nl80211Attr_emit_value(a, buffer) ==
    CASE a.tag \in U32Tags -> write_native(buffer, a.num)
      [] a.tag = "Wdev" -> write_native(buffer, a.num)
      [] a.tag \in EnumTags ->
            write_native(buffer, Enum_into_u32(EnumNames(a.tag), a.enum))
      [] a.tag = "Mac" -> copy_from_slice(buffer, a.bytes)
      [] a.tag \in StringTags -> emit_string(a.bytes, buffer)
      [] a.tag = "Use4Addr" -> emit_bool(a.flag, buffer)
      [] a.tag = "TransmitQueueStats" -> TxqStats_emit(a.stats, 0, buffer)
      [] a.tag = "MloLinks" -> MloLinks_emit(a.links, 0, buffer)
      [] a.tag = "Other" -> emit_other(a.other, buffer)

Nl80211Attr_emit(a, buffer) ==
    LET vl == Nl80211Attr_value_len(a)
        h == Nla_emit_header(Nl80211Attr_kind(a), vl, buffer)
    IN  IF h.panic THEN h
        ELSE Nla_emit_finish(vl, h.buf,
                 Nl80211Attr_emit_value(a, Nla_value_mut(h.buf, vl)))

----------------------------------------------------------------------------
(* Nl80211Attr::parse *)

AttrErr == [ok |-> FALSE, val |-> Blank]

AttrOk(a) == [ok |-> TRUE, val |-> a]

\* the kinds with an arm of their own in Nl80211Attr::parse
KindTag(k) ==
    CASE k = NL80211_ATTR_IFINDEX -> "IfIndex"
      [] k = NL80211_ATTR_WIPHY -> "WiPhy"
      [] k = NL80211_ATTR_WIPHY_NAME -> "WiPhyName"
      [] k = NL80211_ATTR_IFNAME -> "IfName"
      [] k = NL80211_ATTR_IFTYPE -> "IfType"
      [] k = NL80211_ATTR_WDEV -> "Wdev"
      [] k = NL80211_ATTR_MAC -> "Mac"
      [] k = NL80211_ATTR_GENERATION -> "Generation"
      [] k = NL80211_ATTR_4ADDR -> "Use4Addr"
      [] k = NL80211_ATTR_WIPHY_FREQ -> "WiPhyFreq"
      [] k = NL80211_ATTR_WIPHY_FREQ_OFFSET -> "WiPhyFreqOffset"
      [] k = NL80211_ATTR_WIPHY_CHANNEL_TYPE -> "WiPhyChannelType"
      [] k = NL80211_ATTR_CHANNEL_WIDTH -> "ChannelWidth"
      [] k = NL80211_ATTR_CENTER_FREQ1 -> "CenterFreq1"
      [] k = NL80211_ATTR_CENTER_FREQ2 -> "CenterFreq2"
      [] k = NL80211_ATTR_WIPHY_TX_POWER_LEVEL -> "WiPhyTxPowerLevel"
      [] k = NL80211_ATTR_SSID -> "Ssid"
      [] k = NL80211_ATTR_TXQ_STATS -> "TransmitQueueStats"
      [] k = NL80211_ATTR_MLO_LINKS -> "MloLinks"
      [] OTHER -> "Other"

\* the NlasIterator loop of the NL80211_ATTR_TXQ_STATS arm
RECURSIVE TxqStats_parse_loop(_, _, _)
TxqStats_parse_loop(payload, position, nlas) ==
    IF position >= Len(payload) THEN AttrOk(AttrTransmitQueueStats(nlas))
    ELSE LET rest == Slice(payload, position, Len(payload))
         IN  IF ~NlaBuffer_new_checked(rest) THEN AttrErr
             ELSE LET p == TxqStat_parse(rest)
                      next == position + nla_align(NlaBuffer_length(rest))
                  IN  IF ~p.ok THEN AttrErr
                      ELSE TxqStats_parse_loop(payload, next,
                                               Append(nlas, p.val))

\* variant: the loop stops at the first bad element and keeps what it has
RECURSIVE MloLinks_parse_loop_partial(_, _, _)
MloLinks_parse_loop_partial(payload, position, links) ==
    IF position >= Len(payload) THEN AttrOk(AttrMloLinks(links))
    ELSE LET rest == Slice(payload, position, Len(payload))
         IN  IF ~NlaBuffer_new_checked(rest) THEN AttrOk(AttrMloLinks(links))
             ELSE LET p == Nl80211MloLink_parse(rest)
                      next == position + nla_align(NlaBuffer_length(rest))
                  IN  IF ~p.ok THEN AttrOk(AttrMloLinks(links))
                      ELSE MloLinks_parse_loop_partial(payload, next,
                                                       Append(links, p.val))

\* the NlasIterator loop of the NL80211_ATTR_MLO_LINKS arm
RECURSIVE MloLinks_parse_loop(_, _, _)
MloLinks_parse_loop(payload, position, links) ==
    IF position >= Len(payload) THEN AttrOk(AttrMloLinks(links))
    ELSE LET rest == Slice(payload, position, Len(payload))
         IN  IF ~NlaBuffer_new_checked(rest) THEN AttrErr
             ELSE LET p == Nl80211MloLink_parse(rest)
                      next == position + nla_align(NlaBuffer_length(rest))
                  IN  IF ~p.ok THEN AttrErr
                      ELSE MloLinks_parse_loop(payload, next,
                                               Append(links, p.val))

\* variant: a longer value is cut to its first 6 bytes
parse_mac_atleast(payload) ==
    IF Len(payload) >= ETH_ALEN
    THEN AttrOk(AttrMac(SubSeq(payload, 1, ETH_ALEN)))
    ELSE AttrErr

\* the NL80211_ATTR_MAC arm
parse_mac(payload) ==
    IF Len(payload) = ETH_ALEN THEN AttrOk(AttrMac(payload)) ELSE AttrErr

\* variant: only the leading 4 bytes are read
parse_u32_attr_prefix(t, payload) ==
    IF Len(payload) >= 4
    THEN AttrOk(AttrNum(t, NativeDigits(SubSeq(payload, 1, 4))))
    ELSE AttrErr

\* the arms that wrap parse_u32 without conversion
parse_u32_attr(t, payload) ==
    LET r == parse_u32(payload)
    IN  IF r.ok THEN AttrOk(AttrNum(t, r.val)) ELSE AttrErr

\* the arms that convert the parsed u32 with .into()
parse_enum_attr(t, payload) ==
    LET r == parse_u32(payload)
    IN  IF r.ok THEN AttrOk(AttrEnum(t, Enum_from_u32(EnumNames(t), r.val)))
        ELSE AttrErr

\* the NL80211_ATTR_WDEV arm
parse_wdev(payload) ==
    LET r == parse_u64(payload)
    IN  IF r.ok THEN AttrOk(AttrNum("Wdev", r.val)) ELSE AttrErr

\* variant: an absent byte reads as false
parse_4addr_default(payload) ==
    IF Len(payload) = 0 THEN AttrOk(AttrUse4Addr(FALSE))
    ELSE IF Len(payload) = 1 THEN AttrOk(AttrUse4Addr(payload[1] > 0))
    ELSE AttrErr

\* variant: only the byte 1 reads as true
parse_4addr_exact1(payload) ==
    LET r == parse_u8(payload)
    IN  IF r.ok THEN AttrOk(AttrUse4Addr(r.val = 1)) ELSE AttrErr

\* the NL80211_ATTR_4ADDR arm:  parse_u8(payload)? > 0
parse_4addr(payload) ==
    LET r == parse_u8(payload)
    IN  IF r.ok THEN AttrOk(AttrUse4Addr(r.val > 0)) ELSE AttrErr

\* variant: the terminator is required
parse_string_attr_strict(t, payload) ==
    IF Len(payload) = 0 \/ payload[Len(payload)] # 0 THEN AttrErr
    ELSE LET r == parse_string(payload)
         IN  IF r.ok THEN AttrOk(AttrString(t, r.val)) ELSE AttrErr

\* the string arms
parse_string_attr(t, payload) ==
    LET r == parse_string(payload)
    IN  IF r.ok THEN AttrOk(AttrString(t, r.val)) ELSE AttrErr

\* variant: an empty value is refused
parse_other_nonempty(data) ==
    IF Len(NlaBuffer_value(data)) = 0 THEN AttrErr
    ELSE AttrOk(AttrOther(DefaultNla_parse(data)))

\* the fallback arm:  Self::Other(DefaultNla::parse(buf)?)
parse_other(data) == AttrOk(AttrOther(DefaultNla_parse(data)))

Nl80211Attr_parse(data) ==
    LET payload == NlaBuffer_value(data)
        t == KindTag(NlaBuffer_kind(data))
    IN  CASE t \in U32Tags -> parse_u32_attr(t, payload)
          [] t \in EnumTags -> parse_enum_attr(t, payload)
          [] t \in StringTags -> parse_string_attr(t, payload)
          [] t = "Wdev" -> parse_wdev(payload)
          [] t = "Mac" -> parse_mac(payload)
          [] t = "Use4Addr" -> parse_4addr(payload)
          [] t = "TransmitQueueStats" -> TxqStats_parse_loop(payload, 0, << >>)
          [] t = "MloLinks" -> MloLinks_parse_loop(payload, 0, << >>)
          [] t = "Other" -> parse_other(data)

----------------------------------------------------------------------------
(* A message payload: a sequence of sibling attributes *)

\* <&[Nl80211Attr] as Emitable>::buffer_len and ::emit
RECURSIVE Attrs_buffer_len(_)
Attrs_buffer_len(attrs) ==
    IF attrs = << >> THEN 0
    ELSE buffer_len(Nl80211Attr_value_len(Head(attrs)))
         + Attrs_buffer_len(Tail(attrs))

RECURSIVE Attrs_emit(_, _, _)
Attrs_emit(attrs, start, buffer) ==
    IF attrs = << >> THEN Done(buffer)
    ELSE LET n == Head(attrs)
             end == start + buffer_len(Nl80211Attr_value_len(n))
         IN  IF end > Len(buffer) THEN Panic(buffer)
             ELSE LET r == Nl80211Attr_emit(n, Slice(buffer, start, end))
                      b == Overwrite(buffer, start, r.buf)
                  IN  IF r.panic THEN Panic(b)
                      ELSE Attrs_emit(Tail(attrs), end, b)

\* A value carried in the session's attr slot when it drives a sequence
SeqCarrier(attrs) == [Blank EXCEPT !.tag = "Attrs", !.seq = attrs]

\* the message-level decode: NlasIterator over the payload, every record
\* through Nl80211Attr::parse, the first error aborts the whole decode
RECURSIVE Attrs_parse_loop(_, _, _)
Attrs_parse_loop(payload, position, attrs) ==
    IF position >= Len(payload) THEN AttrOk(SeqCarrier(attrs))
    ELSE LET rest == Slice(payload, position, Len(payload))
         IN  IF ~NlaBuffer_new_checked(rest) THEN AttrErr
             ELSE LET p == Nl80211Attr_parse(rest)
                      next == position + nla_align(NlaBuffer_length(rest))
                  IN  IF ~p.ok THEN AttrErr
                      ELSE Attrs_parse_loop(payload, next,
                                            Append(attrs, p.val))

----------------------------------------------------------------------------
(* Inputs of a session *)

\* One record as the kernel lays it out: header (kind, length = 4 + |value|),
\* value, zero padding to the next multiple of 4.
Frame(k, value) ==
    NativeBytes(U16Digits(k))
    \o NativeBytes(U16Digits(NLA_HEADER_SIZE + Len(value)))
    \o value \o Zeros(nla_padding(Len(value)))

\* Payload shapes: zeros, counting bytes, ASCII letters, NUL-terminated
\* ASCII letters, all 0xFF, and the two-byte UTF-8 sequence C3 A9 repeated.
Patterns == 1..6

Gen(p, n) ==
    [i \in 1..n |->
        CASE p = 1 -> 0
          [] p = 2 -> i
          [] p = 3 -> 96 + i
          [] p = 4 -> IF i = n THEN 0 ELSE 96 + i
          [] p = 5 -> 255
          [] p = 6 -> IF i % 2 = 1 THEN 195 ELSE 169]

Payloads == {Gen(p, n) : p \in Patterns, n \in 0..MaxPayload}

UnknownKinds == {0, NL80211_ATTR_CIPHER_SUITES, NL80211_ATTR_MLO_LINK_ID, 9999}

DispatchedKinds ==
    {NL80211_ATTR_WIPHY, NL80211_ATTR_WIPHY_NAME, NL80211_ATTR_IFINDEX,
     NL80211_ATTR_IFNAME, NL80211_ATTR_IFTYPE, NL80211_ATTR_MAC,
     NL80211_ATTR_WDEV, NL80211_ATTR_GENERATION, NL80211_ATTR_4ADDR,
     NL80211_ATTR_WIPHY_FREQ, NL80211_ATTR_WIPHY_FREQ_OFFSET,
     NL80211_ATTR_WIPHY_CHANNEL_TYPE, NL80211_ATTR_CHANNEL_WIDTH,
     NL80211_ATTR_CENTER_FREQ1, NL80211_ATTR_CENTER_FREQ2,
     NL80211_ATTR_WIPHY_TX_POWER_LEVEL, NL80211_ATTR_SSID,
     NL80211_ATTR_TXQ_STATS, NL80211_ATTR_MLO_LINKS}

RecordKinds == DispatchedKinds \cup UnknownKinds

U32Samples == {Gen(p, 4) : p \in {1, 2, 5}} \cup {<<0, 0, 0, 3>>}

U64Samples == {Gen(p, 8) : p \in {1, 2, 5}}

StringSamples == {s \in Payloads : IsUtf8(s)}

MacSamples == {Gen(p, ETH_ALEN) : p \in {1, 2, 5}}

EnumSamples(names) ==
    {Enum_from_u32(names, d) :
        d \in U32Samples \cup {<<0, 0, 0, Len(names) - 1>>,
                               <<0, 0, 0, Len(names)>>}}

LinkSamples == {MloLink(i, m) : i \in {0, 5, 255}, m \in {Gen(2, ETH_ALEN), NoMac}}

StatSamples ==
    {TxqStat(k, d) : k \in {1, TxqStatKinds}, d \in {<<0, 0, 0, 3>>, Gen(5, 4)}}
    \cup {TxqStat_Other(DefaultNla(9999, <<171, 205>>))}

SeqsUpTo(S, n) == UNION {[1..m -> S] : m \in 0..n}

AttrSamples ==
    {AttrNum(t, d) : t \in U32Tags, d \in U32Samples}
    \cup {AttrNum("Wdev", d) : d \in U64Samples}
    \cup UNION {{AttrEnum(t, e) : e \in EnumSamples(EnumNames(t))} : t \in EnumTags}
    \cup {AttrString(t, str) : t \in StringTags, str \in StringSamples}
    \cup {AttrMac(m) : m \in MacSamples}
    \cup {AttrUse4Addr(f) : f \in BOOLEAN}
    \cup {AttrTransmitQueueStats(l) : l \in SeqsUpTo(StatSamples, MaxStats)}
    \cup {AttrMloLinks(l) : l \in SeqsUpTo(LinkSamples, MaxLinks)}
    \cup {AttrOther(DefaultNla(k, v)) : k \in UnknownKinds, v \in Payloads}

\* Sub-records met inside a per-link record: link ids, addresses, an
\* unknown sub-kind, two ill-sized fields and a truncated record.
UnknownSub == Frame(9999, <<171, 205>>)

\* declares 12 bytes, holds 8
TruncatedSub == SubSeq(Frame(9999, Gen(2, 8)), 1, 8)

SubRecords ==
    {Frame(NL80211_ATTR_MLO_LINK_ID, <<5>>),
     Frame(NL80211_ATTR_MLO_LINK_ID, <<255>>),
     Frame(NL80211_ATTR_MAC, Gen(2, ETH_ALEN)),
     Frame(NL80211_ATTR_MAC, Gen(5, ETH_ALEN)),
     UnknownSub,
     Frame(NL80211_ATTR_MLO_LINK_ID, << >>),
     Frame(NL80211_ATTR_MAC, Gen(2, ETH_ALEN - 1)),
     TruncatedSub}

RECURSIVE Concat(_)
Concat(ss) == IF ss = << >> THEN << >> ELSE Head(ss) \o Concat(Tail(ss))

OuterKinds == {1, 6, 256}

\* A value carried in the session's attr slot when it drives Nl80211MloLink
LinkCarrier(link) == [Blank EXCEPT !.tag = "MloLink", !.links = <<link>>]

\* Elements of a list record.  A per-link element is one record whose value
\* is a nested sequence; a statistic element is one record with a 4-byte
\* counter.
GoodLinkElem ==
    Frame(6, Frame(NL80211_ATTR_MLO_LINK_ID, <<5>>)
             \o Frame(NL80211_ATTR_MAC, Gen(2, ETH_ALEN)))

EmptyLinkElem == Frame(1, << >>)

\* a per-link element whose link-id sub-record has no value byte
BadIdLinkElem == Frame(6, Frame(NL80211_ATTR_MLO_LINK_ID, << >>))

\* a per-link element whose nested sequence ends in a truncated sub-record
BadNestedLinkElem == Frame(2, TruncatedSub)

GoodStatElem == Frame(1, <<0, 0, 0, 3>>)

\* a statistic element whose counter is 3 bytes wide
BadStatElem == Frame(1, <<1, 2, 3>>)

ListKinds == {NL80211_ATTR_TXQ_STATS, NL80211_ATTR_MLO_LINKS}

ListElems(k) ==
    IF k = NL80211_ATTR_MLO_LINKS
    THEN {GoodLinkElem, EmptyLinkElem, BadIdLinkElem, BadNestedLinkElem,
          TruncatedSub}
    ELSE {GoodStatElem, UnknownSub, BadStatElem, TruncatedSub}

\* the elements whose own decode fails
FailingElems(k) ==
    IF k = NL80211_ATTR_MLO_LINKS
    THEN {BadIdLinkElem, BadNestedLinkElem}
    ELSE {BadStatElem}

\* Sibling records of a message payload
IfIndexRec == Frame(NL80211_ATTR_IFINDEX, NativeBytes(<<0, 0, 0, 3>>))

\* "lab" and its NUL
SsidRec == Frame(NL80211_ATTR_SSID, <<108, 97, 98, 0>>)

Use4AddrRec == Frame(NL80211_ATTR_4ADDR, <<1>>)

\* an interface index 3 bytes wide
BadIfIndexRec == Frame(NL80211_ATTR_IFINDEX, <<1, 2, 3>>)

SiblingRecords ==
    {IfIndexRec, SsidRec, UnknownSub, Use4AddrRec, BadIfIndexRec}

----------------------------------------------------------------------------
(* The session *)

NoBuf == Done(<< >>)

NoRec == [kind |-> 0, value |-> << >>, subs |-> << >>]

FillBytes == {0, 238}

Init ==
    /\ endian \in {"le", "be"}
    /\ ty = "Nl80211Attr"
    /\ phase = "idle"
    /\ attr0 = Blank
    /\ rec0 = NoRec
    /\ buf0 = << >>
    /\ attr = AttrErr
    /\ buf = NoBuf

\* the caller holds a typed attribute
SupplyAttr ==
    /\ phase = "idle"
    /\ \E a \in AttrSamples :
          /\ attr0' = a
          /\ attr' = AttrOk(a)
    /\ phase' = "value"
    /\ ty' = "Nl80211Attr"
    /\ UNCHANGED <<endian, rec0, buf0, buf>>

\* the caller holds a per-link value
SupplyLink ==
    /\ phase = "idle"
    /\ \E i \in Byte, m \in MacSamples :
          /\ attr0' = LinkCarrier(MloLink(i, m))
          /\ attr' = AttrOk(LinkCarrier(MloLink(i, m)))
    /\ phase' = "value"
    /\ ty' = "Nl80211MloLink"
    /\ UNCHANGED <<endian, rec0, buf0, buf>>

\* the kernel delivers one top-level record
SupplyRecord ==
    /\ phase = "idle"
    /\ \E k \in RecordKinds, value \in Payloads :
          /\ rec0' = [kind |-> k, value |-> value, subs |-> << >>]
          /\ buf0' = Frame(k, value)
          /\ buf' = Done(Frame(k, value))
    /\ phase' = "record"
    /\ ty' = "Nl80211Attr"
    /\ UNCHANGED <<endian, attr0, attr>>

\* the kernel delivers one per-link record
SupplyLinkRecord ==
    /\ phase = "idle"
    /\ \E k \in OuterKinds, subs \in SeqsUpTo(SubRecords, MaxSubs) :
          /\ rec0' = [kind |-> k, value |-> Concat(subs), subs |-> subs]
          /\ buf0' = Frame(k, Concat(subs))
          /\ buf' = Done(Frame(k, Concat(subs)))
    /\ phase' = "record"
    /\ ty' = "Nl80211MloLink"
    /\ UNCHANGED <<endian, attr0, attr>>

\* the kernel delivers a 4-address flag record holding any byte
SupplyFlagRecord ==
    /\ phase = "idle"
    /\ \E b \in Byte :
          /\ rec0' = [kind |-> NL80211_ATTR_4ADDR, value |-> <<b>>,
                      subs |-> << >>]
          /\ buf0' = Frame(NL80211_ATTR_4ADDR, <<b>>)
          /\ buf' = Done(Frame(NL80211_ATTR_4ADDR, <<b>>))
    /\ phase' = "record"
    /\ ty' = "Nl80211Attr"
    /\ UNCHANGED <<endian, attr0, attr>>

\* the kernel delivers one top-level list record
SupplyListRecord ==
    /\ phase = "idle"
    /\ \E k \in ListKinds :
          \E elems \in SeqsUpTo(ListElems(k), MaxElems) :
             /\ rec0' = [kind |-> k, value |-> Concat(elems), subs |-> elems]
             /\ buf0' = Frame(k, Concat(elems))
             /\ buf' = Done(Frame(k, Concat(elems)))
    /\ phase' = "record"
    /\ ty' = "Nl80211Attr"
    /\ UNCHANGED <<endian, attr0, attr>>

\* the kernel delivers a message payload of sibling records
SupplySequence ==
    /\ phase = "idle"
    /\ \E recs \in SeqsUpTo(SiblingRecords, MaxSiblings) :
          /\ rec0' = [kind |-> 0, value |-> Concat(recs), subs |-> recs]
          /\ buf0' = Concat(recs)
          /\ buf' = Done(Concat(recs))
    /\ phase' = "record"
    /\ ty' = "Nl80211Attrs"
    /\ UNCHANGED <<endian, attr0, attr>>

\* nla.emit(&mut vec![fill; nla.buffer_len()])
Emit(fill) ==
    /\ phase \in {"value", "parsed"}
    /\ attr.ok
    /\ phase' = IF phase = "value" THEN "emitted" ELSE "reemitted"
    /\ buf' = IF ty = "Nl80211Attrs"
              THEN Attrs_emit(attr.val.seq, 0,
                     Fill(Attrs_buffer_len(attr.val.seq), fill))
              ELSE IF ty = "Nl80211Attr"
              THEN Nl80211Attr_emit(attr.val,
                     Fill(buffer_len(Nl80211Attr_value_len(attr.val)), fill))
              ELSE Nl80211MloLink_emit(attr.val.links[1],
                     Fill(buffer_len(Nl80211MloLink_value_len(attr.val.links[1])),
                          fill))
    /\ UNCHANGED <<endian, ty, attr0, rec0, buf0, attr>>

\* nla.emit_value(&mut vec![fill; nla.value_len()])
EmitValue(fill) ==
    /\ phase \in {"value", "parsed"}
    /\ ty # "Nl80211Attrs"
    /\ attr.ok
    /\ phase' = "value_emitted"
    /\ buf' = IF ty = "Nl80211Attr"
              THEN Nl80211Attr_emit_value(attr.val,
                     Fill(Nl80211Attr_value_len(attr.val), fill))
              ELSE Nl80211MloLink_emit_value(attr.val.links[1],
                     Fill(Nl80211MloLink_value_len(attr.val.links[1]), fill))
    /\ UNCHANGED <<endian, ty, attr0, rec0, buf0, attr>>

\* T::parse(&NlaBuffer::new_checked(&buf)?)
Parse ==
    /\ phase \in {"record", "emitted"}
    /\ ~buf.panic
    /\ phase' = IF phase = "record" THEN "parsed" ELSE "reparsed"
    /\ attr' = IF ty = "Nl80211Attrs" THEN Attrs_parse_loop(buf.buf, 0, << >>)
               ELSE IF ~NlaBuffer_new_checked(buf.buf) THEN AttrErr
               ELSE IF ty = "Nl80211Attr" THEN Nl80211Attr_parse(buf.buf)
               ELSE LET r == Nl80211MloLink_parse(buf.buf)
                    IN  IF r.ok THEN AttrOk(LinkCarrier(r.val)) ELSE AttrErr
    /\ UNCHANGED <<endian, ty, attr0, rec0, buf0, buf>>

\* the session's values are dropped
Reset ==
    /\ phase # "idle"
    /\ phase' = "idle"
    /\ ty' = "Nl80211Attr"
    /\ attr0' = Blank
    /\ rec0' = NoRec
    /\ buf0' = << >>
    /\ attr' = AttrErr
    /\ buf' = NoBuf
    /\ UNCHANGED endian

Next ==
    \/ SupplyAttr
    \/ SupplyLink
    \/ SupplyRecord
    \/ SupplyLinkRecord
    \/ SupplyFlagRecord
    \/ SupplyListRecord
    \/ SupplySequence
    \/ \E fill \in FillBytes : Emit(fill)
    \/ \E fill \in FillBytes : EmitValue(fill)
    \/ Parse
    \/ Reset

Spec == Init /\ [][Next]_vars

----------------------------------------------------------------------------
(* Properties *)

IsAttr == ty = "Nl80211Attr"

IsLink == ty = "Nl80211MloLink"

\* the 16-bit field at bytes [at, at+2) of a buffer, read in host byte order
HostU16(b, at) ==
    IF endian = "le" THEN b[at + 1] + 256 * b[at + 2]
    ELSE 256 * b[at + 1] + b[at + 2]

\* the digits of the integer stored in host byte order in bytes b
HostDigits(b) == IF endian = "le" THEN Reverse(b) ELSE b

FixedKinds ==
    {NL80211_ATTR_WIPHY, NL80211_ATTR_IFINDEX, NL80211_ATTR_IFTYPE,
     NL80211_ATTR_GENERATION, NL80211_ATTR_WIPHY_FREQ,
     NL80211_ATTR_WIPHY_FREQ_OFFSET, NL80211_ATTR_WIPHY_CHANNEL_TYPE,
     NL80211_ATTR_CHANNEL_WIDTH, NL80211_ATTR_CENTER_FREQ1,
     NL80211_ATTR_CENTER_FREQ2, NL80211_ATTR_WIPHY_TX_POWER_LEVEL,
     NL80211_ATTR_WDEV, NL80211_ATTR_4ADDR}

FixedWidth(k) ==
    IF k = NL80211_ATTR_WDEV THEN 8
    ELSE IF k = NL80211_ATTR_4ADDR THEN 1
    ELSE 4

StringKinds == {NL80211_ATTR_WIPHY_NAME, NL80211_ATTR_IFNAME, NL80211_ATTR_SSID}

C2_LengthConsistent ==
    (IsAttr /\ phase = "value_emitted") =>
        /\ ~buf.panic
        /\ Len(buf.buf) = Nl80211Attr_value_len(attr.val)
        /\ \A fill \in FillBytes :
              buf.buf = Nl80211Attr_emit_value(attr.val,
                            Fill(Nl80211Attr_value_len(attr.val), fill)).buf

\* C3: a record of a kind without an arm in Nl80211Attr::parse always
\* decodes, to Other carrying exactly the record's kind and value bytes.
C3_UnknownKindIsOpaque ==
    (IsAttr /\ phase = "parsed" /\ rec0.kind \notin DispatchedKinds) =>
        /\ attr.ok
        /\ attr.val = AttrOther(DefaultNla(rec0.kind, rec0.value))

C3_Witness ==
    /\ IsAttr
    /\ phase = "parsed"
    /\ rec0.kind = NL80211_ATTR_CIPHER_SUITES
    /\ rec0.value = << >>
    /\ attr.ok
    /\ attr.val.tag = "Other"

\* C4: a record of an unknown kind, decoded and emitted again, gives back
\* the bytes of the original record (header, value, zero padding).
C4_ReEmitExact ==
    (IsAttr /\ phase = "reemitted" /\ rec0.kind \notin DispatchedKinds) =>
        (~buf.panic /\ buf.buf = buf0)

\* C5 as stated: a fixed-width attribute whose value is longer than the
\* required width decodes, to the value of the required leading bytes.
C5_ExtraBytesTolerated ==
    (/\ IsAttr
     /\ phase = "parsed"
     /\ rec0.kind \in FixedKinds
     /\ Len(rec0.value) > FixedWidth(rec0.kind)) =>
        /\ attr.ok
        /\ attr = Nl80211Attr_parse(
                     Frame(rec0.kind,
                           SubSeq(rec0.value, 1, FixedWidth(rec0.kind))))

\* C5 as amended: a fixed-width attribute whose value is longer than the
\* required width is a decode error; a value of exactly the required width
\* decodes, the u32 and u64 kinds to the integer held in those bytes.
C5_ExactWidthOnly ==
    (IsAttr /\ phase = "parsed" /\ rec0.kind \in FixedKinds) =>
        /\ Len(rec0.value) > FixedWidth(rec0.kind) => ~attr.ok
        /\ Len(rec0.value) = FixedWidth(rec0.kind) =>
              /\ attr.ok
              /\ attr.val.tag \in U32Tags \cup {"Wdev"} =>
                    attr.val.num = HostDigits(rec0.value)

C5_Witness ==
    /\ IsAttr
    /\ phase = "parsed"
    /\ rec0.kind = NL80211_ATTR_IFINDEX
    /\ Len(rec0.value) = 5
    /\ ~attr.ok

\* C6: a fixed-width attribute whose value is shorter than the required
\* width is a decode error.
C6_TooShortFails ==
    (/\ IsAttr
     /\ phase = "parsed"
     /\ rec0.kind \in FixedKinds
     /\ Len(rec0.value) < FixedWidth(rec0.kind)) => ~attr.ok

C6_Witness ==
    /\ IsAttr
    /\ phase = "parsed"
    /\ rec0.kind = NL80211_ATTR_WDEV
    /\ Len(rec0.value) = 7
    /\ ~attr.ok

\* C7: an NL80211_ATTR_MAC record decodes exactly when its value is 6 bytes
\* long, and then to Mac carrying those bytes in order.
C7_MacExactLength ==
    (IsAttr /\ phase = "parsed" /\ rec0.kind = NL80211_ATTR_MAC) =>
        /\ attr.ok <=> Len(rec0.value) = 6
        /\ attr.ok => attr.val = AttrMac(rec0.value)

C7_Witness ==
    /\ IsAttr
    /\ phase = "parsed"
    /\ rec0.kind = NL80211_ATTR_MAC
    /\ rec0.value = <<1, 2, 3, 4, 5, 6>>
    /\ attr.ok
    /\ attr.val.bytes = <<1, 2, 3, 4, 5, 6>>

\* C8 as stated: a string attribute decodes only if its value is at least
\* one byte long and ends with NUL.
C8_TerminatorRequired ==
    (IsAttr /\ phase = "parsed" /\ rec0.kind \in StringKinds /\ attr.ok) =>
        /\ Len(rec0.value) >= 1
        /\ rec0.value[Len(rec0.value)] = 0

AllAscii(b) == \A i \in 1..Len(b) : b[i] < 128

\* C8 as amended: the terminator is optional.  An empty value decodes to
\* the empty string; an ASCII value ending in NUL decodes to the bytes
\* before that NUL; an ASCII value not ending in NUL decodes to all of its
\* bytes; a value holding a 0xFF byte (never valid UTF-8) is a decode error.
C8_TerminatorOptional ==
    (IsAttr /\ phase = "parsed" /\ rec0.kind \in StringKinds) =>
        LET v == rec0.value
            n == Len(rec0.value)
        IN  /\ n = 0 => (attr.ok /\ attr.val.bytes = << >>)
            /\ (n > 0 /\ AllAscii(v) /\ v[n] = 0) =>
                  (attr.ok /\ attr.val.bytes = SubSeq(v, 1, n - 1))
            /\ (n > 0 /\ AllAscii(v) /\ v[n] # 0) =>
                  (attr.ok /\ attr.val.bytes = v)
            /\ (\E i \in 1..n : v[i] = 255) => ~attr.ok
            /\ attr.ok => attr.val.tag = KindTag(rec0.kind)

C8_Witness ==
    /\ IsAttr
    /\ phase = "parsed"
    /\ rec0.kind = NL80211_ATTR_SSID
    /\ rec0.value = <<97, 98, 99>>
    /\ attr.ok
    /\ attr.val.bytes = <<97, 98, 99>>

\* C9: a per-link value {id, mac} is emitted under outer wire-type id + 1
\* and parses back to {id, mac}; a record framed under id + 1 that holds a
\* link-id sub-record id and an address sub-record mac decodes to {id, mac}.
C9_LinkDiscriminant ==
    /\ (IsLink /\ phase = "emitted") =>
          /\ ~buf.panic
          /\ HostU16(buf.buf, 0) = attr0.links[1].id + 1
    /\ (IsLink /\ phase = "reparsed") => (attr.ok /\ attr.val = attr0)
    /\ \A i \in {5, 255}, m \in {Gen(2, ETH_ALEN), Gen(5, ETH_ALEN)} :
          (/\ IsLink
           /\ phase = "parsed"
           /\ rec0.kind = i + 1
           /\ rec0.subs = <<Frame(NL80211_ATTR_MLO_LINK_ID, <<i>>),
                            Frame(NL80211_ATTR_MAC, m)>>) =>
              (attr.ok /\ attr.val = LinkCarrier(MloLink(i, m)))

C9_Witness ==
    /\ IsLink
    /\ phase = "reparsed"
    /\ attr0.links[1].id = 5
    /\ HostU16(buf.buf, 0) = 6
    /\ attr.ok
    /\ attr.val.links[1].id = 5

RECURSIVE WithoutUnknown(_)
WithoutUnknown(subs) ==
    IF subs = << >> THEN << >>
    ELSE IF Head(subs) = UnknownSub THEN WithoutUnknown(Tail(subs))
    ELSE <<Head(subs)>> \o WithoutUnknown(Tail(subs))

\* C10: in a per-link record made of well-framed sub-records, a sub-record
\* of unknown sub-kind changes nothing: the record decodes exactly as the
\* same record with that sub-record removed does.
C10_UnknownSubKindSkipped ==
    (/\ IsLink
     /\ phase = "parsed"
     /\ \A i \in 1..Len(rec0.subs) : rec0.subs[i] # TruncatedSub) =>
        LET without == Nl80211MloLink_parse(
                           Frame(rec0.kind, Concat(WithoutUnknown(rec0.subs))))
        IN  /\ attr.ok = without.ok
            /\ attr.ok => attr.val = LinkCarrier(without.val)

C10_Witness ==
    /\ IsLink
    /\ phase = "parsed"
    /\ rec0.subs = <<Frame(NL80211_ATTR_MLO_LINK_ID, <<5>>), UnknownSub,
                     Frame(NL80211_ATTR_MAC, Gen(2, ETH_ALEN))>>
    /\ attr.ok
    /\ attr.val.links[1] = MloLink(5, Gen(2, ETH_ALEN))

----------------------------------------------------------------------------
\* The list of a decoded list attribute
DecodedList(a) ==
    IF a.tag = "MloLinks" THEN a.links ELSE a.stats

\* C11: decoding a TransmitQueueStats or MloLinks record is all-or-nothing.
\* When the last nested record is truncated (it declares more bytes than
\* remain), or when no nested record is truncated and some element fails its
\* own decode, the enclosing decode is an error; a decode that succeeds
\* holds one element per nested record, never only the elements that came
\* before a failure.
C11_AllOrNothing ==
    (phase = "parsed" /\ IsAttr /\ rec0.kind \in ListKinds
        /\ rec0.subs # << >>) =>
        LET n == Len(rec0.subs)
            truncs == {i \in 1..n : rec0.subs[i] = TruncatedSub}
            fails == {i \in 1..n : rec0.subs[i] \in FailingElems(rec0.kind)}
        IN  /\ truncs = {n} => ~attr.ok
            /\ truncs = {} => (attr.ok <=> fails = {})
            /\ (truncs = {} /\ attr.ok) =>
                   Len(DecodedList(attr.val)) = n

\* a good element, then a failing one, then a good one: an error, no list
C11_Witness ==
    /\ phase = "parsed"
    /\ IsAttr
    /\ rec0.kind = NL80211_ATTR_MLO_LINKS
    /\ rec0.subs = <<GoodLinkElem, BadIdLinkElem, GoodLinkElem>>
    /\ ~attr.ok

----------------------------------------------------------------------------
\* C12: decoding a NL80211_ATTR_CIPHER_SUITES record is an error whenever
\* the value length is not a multiple of 4, and an 8-byte value decodes to a
\* typed two-element list of cipher-suite identifiers (bytes 0..3, then
\* bytes 4..7), not to an opaque attribute.
C12_CipherSuiteList ==
    (phase = "parsed" /\ IsAttr /\ rec0.subs = << >>
        /\ rec0.kind = NL80211_ATTR_CIPHER_SUITES) =>
        /\ Len(rec0.value) % 4 # 0 => ~attr.ok
        /\ Len(rec0.value) = 8 => (attr.ok /\ attr.val.tag # "Other")

----------------------------------------------------------------------------
IsSeq == ty = "Nl80211Attrs"

\* C13: the bytes of the three sibling records IfIndex (kind 3, value 3),
\* SSID (kind 52, "lab" and a NUL) and an unknown record (kind 9999, value
\* AB CD, two zero padding bytes) decode to exactly IfIndex(3), Ssid("lab"),
\* Other{9999, [AB, CD]} in that order, and encoding that sequence again
\* gives the original bytes, padding bytes zero.
C13_SequenceRoundTrip ==
    (IsSeq /\ rec0.subs = <<IfIndexRec, SsidRec, UnknownSub>>) =>
        /\ phase = "parsed" =>
              /\ attr.ok
              /\ attr.val.seq = <<AttrNum("IfIndex", <<0, 0, 0, 3>>),
                                  AttrString("Ssid", <<108, 97, 98>>),
                                  AttrOther(DefaultNla(9999, <<171, 205>>))>>
        /\ phase = "reemitted" => (~buf.panic /\ buf.buf = buf0)

----------------------------------------------------------------------------
\* the wire codes of the named variants
NamedCodes == {Nl80211Attr_kind([Blank EXCEPT !.tag = t]) : t \in NamedTags}

\* C14: kind maps the 19 named variants to 19 pairwise distinct codes; the
\* kind of every successfully decoded value is the kind of the record it was
\* decoded from, alone or as one of a sequence of siblings; and a decoded
\* Other never carries the code of a named variant.
C14_KindUnique ==
    /\ \A t1, t2 \in NamedTags :
          t1 # t2 => Nl80211Attr_kind([Blank EXCEPT !.tag = t1])
                       # Nl80211Attr_kind([Blank EXCEPT !.tag = t2])
    /\ Cardinality(NamedTags) = 19
    /\ NamedCodes = DispatchedKinds
    /\ (phase = "parsed" /\ IsAttr /\ attr.ok) =>
          /\ Nl80211Attr_kind(attr.val) = rec0.kind
          /\ attr.val.tag = "Other" => attr.val.other.kind \notin NamedCodes
    /\ (phase = "parsed" /\ IsSeq /\ attr.ok) =>
          /\ Len(attr.val.seq) = Len(rec0.subs)
          /\ \A i \in 1..Len(attr.val.seq) :
                /\ Nl80211Attr_kind(attr.val.seq[i]) = HostU16(rec0.subs[i], 0)
                /\ attr.val.seq[i].tag = "Other" =>
                      attr.val.seq[i].other.kind \notin NamedCodes

\* a record of the second centre frequency was decoded
C14_Witness ==
    /\ phase = "parsed"
    /\ IsAttr
    /\ rec0.kind = NL80211_ATTR_CENTER_FREQ2
    /\ attr.ok
    /\ attr.val.tag = "CenterFreq2"

----------------------------------------------------------------------------
\* a well-formed link-id sub-record: kind and a declared length of 4 + 1
IsIdSub(sub) ==
    /\ HostU16(sub, 0) = NL80211_ATTR_MLO_LINK_ID
    /\ HostU16(sub, 2) = NLA_HEADER_SIZE + 1

\* a well-formed address sub-record: kind and a declared length of 4 + 6
IsMacSub(sub) ==
    /\ HostU16(sub, 0) = NL80211_ATTR_MAC
    /\ HostU16(sub, 2) = NLA_HEADER_SIZE + ETH_ALEN

LastIndex(S) == CHOOSE i \in S : \A j \in S : j <= i

\* the value of the last link-id sub-record, 0 when there is none
LastId(subs) ==
    LET I == {i \in 1..Len(subs) : IsIdSub(subs[i])}
    IN  IF I = {} THEN 0 ELSE subs[LastIndex(I)][NLA_HEADER_SIZE + 1]

\* the value of the last address sub-record, all zeros when there is none
LastMac(subs) ==
    LET I == {i \in 1..Len(subs) : IsMacSub(subs[i])}
    IN  IF I = {} THEN Zeros(ETH_ALEN)
        ELSE SubSeq(subs[LastIndex(I)], NLA_HEADER_SIZE + 1,
                    NLA_HEADER_SIZE + ETH_ALEN)

\* C15: the per-link decode reads the nested sequence only.  A decoded
\* per-link value has the id of the last nested link-id sub-record (0 when
\* there is none) and the address of the last nested address sub-record
\* (all zeros when there is none), and the same bytes under any other outer
\* wire-type decode to the same value, also when the outer wire-type is
\* not id + 1.
C15_NestedOnly ==
    (IsLink /\ phase = "parsed" /\ attr.ok) =>
        /\ attr.val.links[1].id = LastId(rec0.subs)
        /\ attr.val.links[1].mac = LastMac(rec0.subs)
        /\ \A k \in OuterKinds :
              LET r == Nl80211MloLink_parse(Frame(k, rec0.value))
              IN  r.ok /\ r.val = attr.val.links[1]

\* two link ids and an address under outer wire-type 6: the last id stands
C15_Witness ==
    /\ IsLink
    /\ phase = "parsed"
    /\ rec0.kind = 6
    /\ rec0.subs = <<Frame(NL80211_ATTR_MLO_LINK_ID, <<5>>),
                     Frame(NL80211_ATTR_MAC, Gen(2, ETH_ALEN)),
                     Frame(NL80211_ATTR_MLO_LINK_ID, <<255>>)>>
    /\ attr.ok
    /\ attr.val.links[1] = MloLink(255, Gen(2, ETH_ALEN))

----------------------------------------------------------------------------
\* C16: for every link id 0..255 the outer wire-type of a per-link value is
\* id + 1 computed without wrapping: it lies in 1..256, is never 0, differs
\* from the outer wire-type of every other id, and is the kind written into
\* the header of the encoded record.
C16_OuterKindRange ==
    (IsLink /\ phase \in {"value", "emitted"}) =>
        LET link == attr0.links[1]
            k == Nl80211MloLink_kind(link)
        IN  /\ link.id \in Byte
            /\ k \in 1..256
            /\ k # 0
            /\ k = link.id + 1
            /\ \A j \in Byte :
                  j # link.id => Nl80211MloLink_kind(MloLink(j, link.mac)) # k
            /\ phase = "emitted" =>
                  (~buf.panic /\ HostU16(buf.buf, 0) = k)

\* the largest link id was encoded: outer wire-type 256
C16_Witness ==
    /\ IsLink
    /\ phase = "emitted"
    /\ attr0.links[1].id = 255
    /\ ~buf.panic
    /\ HostU16(buf.buf, 0) = 256

----------------------------------------------------------------------------
\* C17: a NL80211_ATTR_4ADDR record with a 1-byte value b decodes to
\* Use4Addr(true) for every b in 1..255 and to Use4Addr(false) for b = 0;
\* encoding Use4Addr writes the single byte 1 for true and 0 for false; so
\* decoding and encoding again turns every non-zero byte into 1, leaves 0,
\* and doing it a second time changes nothing.
C17_BoolNormalised ==
    /\ (IsAttr /\ rec0.kind = NL80211_ATTR_4ADDR /\ Len(rec0.value) = 1
           /\ phase \in {"parsed", "reemitted"}) =>
          LET b == rec0.value[1]
          IN  /\ attr.ok
              /\ attr.val = AttrUse4Addr(b # 0)
              /\ phase = "reemitted" =>
                    /\ ~buf.panic
                    /\ buf.buf = Frame(NL80211_ATTR_4ADDR,
                                       <<IF b = 0 THEN 0 ELSE 1>>)
                    /\ LET again == Nl80211Attr_parse(buf.buf)
                       IN  /\ again.ok
                           /\ again.val = attr.val
                           /\ Nl80211Attr_emit(again.val,
                                  Fill(Len(buf.buf), 238)) = buf
    /\ (IsAttr /\ phase = "emitted" /\ attr0.tag = "Use4Addr") =>
          /\ ~buf.panic
          /\ buf.buf = Frame(NL80211_ATTR_4ADDR,
                             <<IF attr0.flag THEN 1 ELSE 0>>)

\* the byte 200 was decoded to true and encoded again as 1
C17_Witness ==
    /\ IsAttr
    /\ phase = "reemitted"
    /\ rec0.kind = NL80211_ATTR_4ADDR
    /\ rec0.value = <<200>>
    /\ attr.val = AttrUse4Addr(TRUE)
    /\ buf.buf = Frame(NL80211_ATTR_4ADDR, <<1>>)

====
